---- MODULE Spec2Model ----
(***************************************************************************)
(* Vocalls development workspace: the library-file sorter                  *)
(* (core/src/utils/sorting.js) and the simulation engine                   *)
(* (core/src/simulator/engine.js, class VocallsSimulator).                 *)
(*                                                                         *)
(* File names are sequences of one-character strings so that the regular   *)
(* expressions, parseInt, localeCompare and the default Array sort of the  *)
(* source can be computed instead of assumed.                              *)
(***************************************************************************)
EXTENDS Integers, Sequences, FiniteSets, TLC

\* ------------------------------------------------------------------------
\* Bounds of the model
\* ------------------------------------------------------------------------
\* longest list of file names handed to the sorter
MaxFiles == 5
\* longest explicit libraryOrder handed to the sorter
MaxOrder == 2

\* ------------------------------------------------------------------------
\* Characters
\* ------------------------------------------------------------------------
Digits == <<"0","1","2","3","4","5","6","7","8","9">>
\* UTF-16 code unit order of the characters that occur in file names
\* (the order the default Array.prototype.sort compares by)
CodeUnitOrder == <<"-",".","0","1","2","3","4","5","6","7","8","9","A","B","C","D","E","F","G","H","I","J","K","L","M","N","O","P","Q","R","S","T","U","V","W","X","Y","Z","_","a","b","c","d","e","f","g","h","i","j","k","l","m","n","o","p","q","r","s","t","u","v","w","x","y","z">>
\* primary collation order of localeCompare (punctuation, digits, letters);
\* a letter and its capital share a primary weight
CollationOrder == <<"_","-",".","0","1","2","3","4","5","6","7","8","9","a","b","c","d","e","f","g","h","i","j","k","l","m","n","o","p","q","r","s","t","u","v","w","x","y","z">>
LowerCase == <<"a","b","c","d","e","f","g","h","i","j","k","l","m","n","o","p","q","r","s","t","u","v","w","x","y","z">>
UpperCase == <<"A","B","C","D","E","F","G","H","I","J","K","L","M","N","O","P","Q","R","S","T","U","V","W","X","Y","Z">>

IndexOf(seq, c) == CHOOSE i \in 1..Len(seq) : seq[i] = c
InSeq(seq, c) == \E i \in 1..Len(seq) : seq[i] = c

IsDigit(c) == InSeq(Digits, c)
DigitValue(c) == IndexOf(Digits, c) - 1
IsUpper(c) == InSeq(UpperCase, c)
ToLower(c) == IF IsUpper(c) THEN LowerCase[IndexOf(UpperCase, c)] ELSE c
CodeUnit(c) == IndexOf(CodeUnitOrder, c)
PrimaryWeight(c) == IndexOf(CollationOrder, ToLower(c))
\* tertiary weight: lower case sorts before upper case
TertiaryWeight(c) == IF IsUpper(c) THEN 1 ELSE 0

\* ------------------------------------------------------------------------
\* File names used as inputs
\* ------------------------------------------------------------------------
\* '10-tenth.js'
F10tenth == <<"1","0","-","t","e","n","t","h",".","j","s">>
\* '2-second.js'
F2second == <<"2","-","s","e","c","o","n","d",".","j","s">>
\* '1-first.js'
F1first == <<"1","-","f","i","r","s","t",".","j","s">>
\* 'alpha.js'
Falpha == <<"a","l","p","h","a",".","j","s">>
\* 'beta.js'
Fbeta == <<"b","e","t","a",".","j","s">>
\* '02-x.js'
F02x == <<"0","2","-","x",".","j","s">>
\* 'Zeta.js'
FZeta == <<"Z","e","t","a",".","j","s">>
\* 'notes.md'
Fnotes == <<"n","o","t","e","s",".","m","d">>

\* names the sorter is exercised on
SortNames == {F10tenth, F2second, F1first, Falpha, Fbeta, F02x, FZeta}
\* names an explicit libraryOrder is drawn from
OrderNames == {F1first, Falpha, FZeta}

\* ------------------------------------------------------------------------
\* sorting.js
\* ------------------------------------------------------------------------
\* /^\d/.test(name)
StartsWithNumber(name) == Len(name) > 0 /\ IsDigit(name[1])

RECURSIVE LeadingDigitRun(_)
\* name.match(/^\d+/)[0]
LeadingDigitRun(name) ==
  IF Len(name) = 0 \/ ~IsDigit(name[1]) THEN <<>>
  ELSE <<name[1]>> \o LeadingDigitRun(Tail(name))

RECURSIVE parseInt(_)
\* parseInt(digits, 10) of a non-empty run of decimal digits
parseInt(ds) ==
  IF Len(ds) = 0 THEN 0
  ELSE 10 * parseInt(SubSeq(ds, 1, Len(ds) - 1)) + DigitValue(ds[Len(ds)])

RECURSIVE CompareWeights(_, _, _)
\* lexicographic comparison of two names by the weight W(c, level) of
\* their characters at one collation level: -1, 0 or 1
CompareWeights(a, b, level) ==
  LET W(c) == IF level = 1 THEN PrimaryWeight(c) ELSE TertiaryWeight(c) IN
  IF Len(a) = 0 /\ Len(b) = 0 THEN 0
  ELSE IF Len(a) = 0 THEN -1
  ELSE IF Len(b) = 0 THEN 1
  ELSE IF W(a[1]) < W(b[1]) THEN -1
  ELSE IF W(a[1]) > W(b[1]) THEN 1
  ELSE CompareWeights(Tail(a), Tail(b), level)

\* a.localeCompare(b): primary differences decide first, case differences
\* only between names that are equal apart from case
localeCompare(a, b) ==
  IF CompareWeights(a, b, 1) # 0 THEN CompareWeights(a, b, 1)
  ELSE CompareWeights(a, b, 3)

\* a comparator that compares the leading numbers as text
compareLibraryFilesAsText(a, b) == localeCompare(a, b)

\* the comparator handed to files.sort in sortLibraryFiles
compareLibraryFiles(a, b) ==
  IF StartsWithNumber(a) /\ StartsWithNumber(b)
    THEN parseInt(LeadingDigitRun(a)) - parseInt(LeadingDigitRun(b))
  ELSE IF StartsWithNumber(a) /\ ~StartsWithNumber(b) THEN -1
  ELSE IF ~StartsWithNumber(a) /\ StartsWithNumber(b) THEN 1
  ELSE localeCompare(a, b)

RECURSIVE CompareCodeUnits(_, _)
\* the comparison of the default Array.prototype.sort: by code units
CompareCodeUnits(a, b) ==
  IF Len(a) = 0 /\ Len(b) = 0 THEN 0
  ELSE IF Len(a) = 0 THEN -1
  ELSE IF Len(b) = 0 THEN 1
  ELSE IF CodeUnit(a[1]) < CodeUnit(b[1]) THEN -1
  ELSE IF CodeUnit(a[1]) > CodeUnit(b[1]) THEN 1
  ELSE CompareCodeUnits(Tail(a), Tail(b))

\* the comparison Array.prototype.sort makes: the comparator it was given,
\* or the comparison by code units when it was given none ("default")
SortCompare(comparator, a, b) ==
  IF comparator = "default" THEN CompareCodeUnits(a, b)
  ELSE compareLibraryFiles(a, b)

RECURSIVE InsertSorted(_, _, _)
\* x placed behind every element that does not compare greater than it
InsertSorted(comparator, x, sorted) ==
  IF Len(sorted) = 0 THEN <<x>>
  ELSE IF SortCompare(comparator, sorted[1], x) > 0 THEN <<x>> \o sorted
  ELSE <<sorted[1]>> \o InsertSorted(comparator, x, Tail(sorted))

RECURSIVE ArraySort(_, _)
\* Array.prototype.sort: a stable sort
ArraySort(comparator, s) ==
  IF Len(s) = 0 THEN <<>>
  ELSE InsertSorted(comparator, s[Len(s)],
                    ArraySort(comparator, SubSeq(s, 1, Len(s) - 1)))

\* a sorter that returns the names as they were listed
sortLibraryFilesAsListed(files) == files

\* files.sort(comparator): the array itself, sorted
sortLibraryFiles(files) == ArraySort("compareLibraryFiles", files)

\* files.filter(file => !libraryOrder.includes(file))
MissingFiles(files, libraryOrder) ==
  SelectSeq(files, LAMBDA f : ~InSeq(libraryOrder, f))

\* a sorter that appends the explicit order instead of putting it first
sortLibraryFilesOrderLast(files, libraryOrder) ==
  IF Len(libraryOrder) > 0
    THEN sortLibraryFiles(MissingFiles(files, libraryOrder)) \o libraryOrder
  ELSE sortLibraryFiles(files)

\* libraryOrder is <<>> both for null and for an empty list
sortLibraryFilesWithDependencies(files, libraryOrder) ==
  IF Len(libraryOrder) > 0
    THEN libraryOrder \o sortLibraryFiles(MissingFiles(files, libraryOrder))
  ELSE sortLibraryFiles(files)

\* the caller's files array after the call: sortLibraryFiles sorts the
\* array it is given in place; filter hands it a new array
FilesAfterSort(files, libraryOrder) ==
  IF Len(libraryOrder) > 0 THEN files ELSE sortLibraryFiles(files)


\* ------------------------------------------------------------------------
\* engine.js: inputs of a simulation
\* ------------------------------------------------------------------------
\* most calls of the host API (jsonHttpRequest, httpRequest, Storage) the
\* fragments of one session make
MaxCalls == 2
\* the timeout option of script.runInNewContext, in milliseconds
timeout == 5000
\* how long a script that returns may run, in milliseconds
ScriptDurations == {0, 3000, 5000}

Sessions == {1, 2}
Undefined == "undefined"

\* files that may lie in src/globalLibraries/active of a project
LibNames == {F2second, F10tenth, Fnotes}
\* global functions a fragment may declare or call
FunctionNames == {"helper"}
\* keys and values fragments store in context.session.variables
VarKeys == {"segmentState"}
VarValues == {"v"}
\* Storage paths and contents
StoragePaths == {"data.json"}
StorageContents == {"x"}
HttpModes == {"stub", "real"}
StorageModes == {"memory", "disk"}
\* the environment tags
Environments == {"acc", "prd", "dvp"}
\* the built-ins of the host realm createSandbox puts in every sandbox
\* (Date, Math, JSON, ..., Map, Set): the ones the scripts here touch
SharedBuiltins == {"Object", "Array", "Math", "JSON", "Date", "Map", "Set"}
\* the Node.js globals createSandbox hides
HiddenGlobals ==
  {"global", "process", "require", "module", "exports", "__dirname",
   "__filename", "console", "setTimeout", "setInterval", "clearTimeout",
   "clearInterval"}
\* the host's Promise, the base class of every VocallsPromise
HostBuiltins == SharedBuiltins \cup {"Promise"}
\* arguments of jsonHttpRequest / httpRequest; given = FALSE is a call
\* without a config argument
HttpConfigs ==
  { [given |-> FALSE, url |-> Undefined, method |-> Undefined],
    [given |-> TRUE, url |-> "https://a", method |-> Undefined],
    [given |-> TRUE, url |-> "https://b", method |-> "POST"] }

\* the fragments of the load order
InitFragment == [role |-> "init", name |-> <<>>]
GlobalsFragment == [role |-> "globals", name |-> <<>>]
EntryFragment == [role |-> "entry", name |-> <<>>]
LibraryFragment(lib) == [role |-> "library", name |-> lib]

\* project.json: absent or unreadable, present without a libraryOrder
\* key, or present with a libraryOrder list
ConfigFiles ==
  { [readable |-> FALSE, hasOrder |-> FALSE, libraryOrder |-> <<>>],
    [readable |-> TRUE, hasOrder |-> FALSE, libraryOrder |-> <<>>] } \cup
  { [readable |-> TRUE, hasOrder |-> TRUE, libraryOrder |-> o] :
      o \in UNION { [1..k -> {F2second, F10tenth}] : k \in 0..MaxOrder } }

\* the project directories: a directory without src/globalLibraries/active
\* has no library files
Projects ==
  { p \in [globalCode : BOOLEAN, globalVariables : BOOLEAN, main : BOOLEAN,
           libsDir : BOOLEAN, libs : SUBSET LibNames, config : ConfigFiles] :
      ~p.libsDir => p.libs = {} }
\* projects with one library and no libraryOrder in project.json
OneLibraryProjects ==
  { p \in Projects : /\ p.libsDir
                     /\ p.libs = {F2second}
                     /\ p.config.readable /\ ~p.config.hasOrder }
\* a project as `voc new` leaves it: the three required fragments, the
\* library directory and a project.json
ScaffoldedProjects ==
  { p \in Projects : /\ p.globalCode /\ p.globalVariables /\ p.main
                     /\ p.libsDir /\ p.config.readable }
\* projects without libraries that have an entry script
EntryProjects ==
  { p \in Projects : /\ p.main /\ ~p.globalVariables /\ ~p.libsDir
                     /\ p.config.readable /\ ~p.config.hasOrder }

VARIABLES
  disk,           \* disk[s]: the project directory session s runs against
  environment,    \* this.environment
  httpMode,       \* this.httpMode
  storageMode,    \* this.storageMode
  stats,          \* this.stats: filesLoaded, httpRequests, storageOps
  memoryStorage,  \* this.memoryStorage
  httpRequests,   \* this.httpRequests, the HTTP log
  sandbox,        \* the sandbox object of the running execute
  pc,             \* where execute of session s stands
  loadOrder,      \* loadOrder of loadProjectFiles
  idx,            \* position of the for loop over loadOrder
  outcome,        \* what execute handed to its caller
  evalLog,        \* runInNewContext calls made: start and end per fragment
  httpCalls,      \* calls of handleHttpRequest made, each with its answer
  lastRead,       \* result of the last Storage.readFile
  declared,       \* the functions the scripts evaluated so far declared
  lastCall,       \* the last call of a global function that went through
  actor,          \* the session that took the last step
  elapsed,        \* time units the scripts of the run have consumed
  consoleLog,     \* what this.log wrote to the console
  lastWrite,      \* result of the last Storage.writeFile
  verbose,        \* this.verbose
  options,        \* the options the constructor was called with
  hostBuiltins,   \* the built-in objects of the host realm
  sInput,         \* sorter: the file names as the caller listed them
  sFiles,         \* sorter: the caller's files array
  sOrder,         \* sorter: the caller's libraryOrder array
  sResult,        \* sorter: the returned array
  sCalled,        \* sorter: the call has returned
  scanCode,       \* scanner: the source text handed to it, line by line
  scanResults,    \* scanner: what each call so far gave its caller
  buildMode,      \* assembler: the production option
  buildOutcome,   \* assembler: what the assembly gave its caller
  outputFile,     \* assembler: the output file on disk
  callbacks,      \* promise callbacks the scripts registered, not yet run
  invocation,     \* which call of execute on this simulator is the current
  scriptName      \* the scriptName argument of the current execute

sessionVars == <<disk, environment, httpMode, storageMode, stats, memoryStorage,
                 httpRequests, sandbox, pc, loadOrder, idx, outcome,
                 evalLog, httpCalls, lastRead, declared, lastCall, actor,
                 elapsed, consoleLog, lastWrite>>
sorterVars == <<sInput, sFiles, sOrder, sResult, sCalled>>
\* what no step of a running session changes: the constructor's options
\* and, unless a script patches them, the built-ins of the host
scanVars == <<scanCode, scanResults, buildMode, buildOutcome, outputFile>>
runVars == <<callbacks, invocation, scriptName>>
extVars == <<verbose, options, hostBuiltins, scanVars, runVars>>
vars == <<sessionVars, sorterVars, extVars>>


\* ------------------------------------------------------------------------
\* engine.js: helpers
\* ------------------------------------------------------------------------
NoFragment == [role |-> "none", name |-> <<>>]
NoMessage == [type |-> "none", about |-> ""]
NoResponse == [success |-> FALSE, status |-> 0, url |-> Undefined,
               method |-> Undefined]
NoRead == [success |-> FALSE, text |-> Undefined, error |-> Undefined]
NoCall == [fn |-> Undefined, at |-> 0, by |-> 0]
NoWrite == [success |-> FALSE, error |-> Undefined]
Null == "null"

RECURSIVE SetToSeq(_)
\* some enumeration of a set (the order readdir lists a directory in)
SetToSeq(S) ==
  IF S = {} THEN <<>>
  ELSE LET x == CHOOSE y \in S : TRUE IN <<x>> \o SetToSeq(S \ {x})

\* file.endsWith('.js')
EndsWithJs(name) ==
  Len(name) >= 3 /\ SubSeq(name, Len(name) - 2, Len(name)) = <<".", "j", "s">>

\* getLibraryFiles: the .js files of the directory, sorted by default sort
getLibraryFiles(project) ==
  ArraySort("default", SelectSeq(SetToSeq(project.libs), EndsWithJs))

\* loadProjectConfig: the parsed project.json, or { libraryOrder: [] }
\* when it cannot be read; defined = FALSE is a missing libraryOrder key
loadProjectConfig(project) ==
  IF project.config.readable
    THEN [defined |-> project.config.hasOrder,
          libraryOrder |-> project.config.libraryOrder]
  ELSE [defined |-> TRUE, libraryOrder |-> <<>>]

\* config.libraryOrder || await this.getLibraryFiles(libsDir): every
\* array, the empty one included, is truthy
ResolveLibraryOrder(project) ==
  LET config == loadProjectConfig(project) IN
  IF config.defined THEN config.libraryOrder ELSE getLibraryFiles(project)

\* the loadOrder array built by loadProjectFiles
ResolveLoadOrder(project) ==
  <<InitFragment, GlobalsFragment>>
  \o (IF project.libsDir
        THEN [i \in 1..Len(ResolveLibraryOrder(project)) |->
                LibraryFragment(ResolveLibraryOrder(project)[i])]
      ELSE <<>>)
  \o <<EntryFragment>>

\* fileExists(join(projectPath, relativePath))
fileExists(project, fragment) ==
  CASE fragment.role = "init" -> project.globalCode
    [] fragment.role = "globals" -> project.globalVariables
    [] fragment.role = "entry" -> project.main
    [] OTHER -> project.libsDir /\ fragment.name \in project.libs

\* createVocallsContext: context.session.variables of a new sandbox
createVocallsContext(env, mode) ==
  [k \in VarKeys \cup {"VOCALLS_ENV", "SIMULATION_MODE"} |->
     CASE k = "VOCALLS_ENV" -> env
       [] k = "SIMULATION_MODE" -> mode
       [] OTHER -> Undefined]

\* a sandbox that hands the scripts the host's own globals
SandboxBindingOfHost(g) == "host"

\* createSandbox: what the sandbox object binds the Node.js global g to
SandboxBinding(g) == IF g \in HiddenGlobals THEN Undefined ELSE "host"

\* createLimitedPromise: a new class VocallsPromise extends Promise on
\* every call; "VocallsPromise" is the class as declared
createLimitedPromise == "VocallsPromise"

\* createSandbox: the global functions of the sandbox object (a function
\* is known by the position of the fragment that declared it, 0 is not
\* declared) and context.session.variables, and the Promise binding
createSandbox(env, mode) ==
  [functions |-> [f \in FunctionNames |-> 0],
   variables |-> createVocallsContext(env, mode),
   Promise |-> createLimitedPromise]

\* createStubResponse
createStubResponse(config) ==
  [success |-> TRUE, status |-> 200, url |-> config.url,
   method |-> IF config.method = Undefined THEN "GET" ELSE config.method]

\* the entry handleHttpRequest pushes on this.httpRequests
RequestEntry(config) ==
  [method |-> IF config.method = Undefined THEN "GET" ELSE config.method,
   url |-> config.url]

\* a handler that answers with the stub response in every mode
HttpAnswerAlwaysStub(mode, config) ==
  IF ~config.given
    THEN [state |-> "rejected", error |-> "TypeError", value |-> NoResponse]
  ELSE [state |-> "fulfilled", error |-> "none",
        value |-> createStubResponse(config)]

\* the promise handleHttpRequest (an async function) returns
HttpAnswer(mode, config) ==
  IF ~config.given
    THEN [state |-> "rejected", error |-> "TypeError", value |-> NoResponse]
  ELSE IF mode = "stub"
    THEN [state |-> "fulfilled", error |-> "none",
          value |-> createStubResponse(config)]
  ELSE [state |-> "rejected",
        error |-> "Real HTTP mode not implemented in this demo",
        value |-> NoResponse]

\* String(content || ''): what handleStorageWrite puts in the map
StoredContent(content) ==
  IF content \in {Undefined, Null, ""} THEN "" ELSE content

\* a read that answers a missing file with an empty text
StorageReadResultMissingAsEmpty(mode, storage, path) ==
  IF mode = "memory"
    THEN [success |-> TRUE,
          text |-> IF storage[path] = Undefined THEN "" ELSE storage[path],
          error |-> Null]
  ELSE [success |-> FALSE, text |-> Null,
        error |-> "disk_storage_not_implemented"]

\* the return value of handleStorageRead
StorageReadResult(mode, storage, path) ==
  IF mode = "memory"
    THEN [success |-> storage[path] # Undefined,
          text |-> IF storage[path] \in {Undefined, ""} THEN Null
                   ELSE storage[path],
          error |-> IF storage[path] = Undefined THEN "file_not_found"
                    ELSE Null]
  ELSE [success |-> FALSE, text |-> Null,
        error |-> "disk_storage_not_implemented"]

\* a write that reports success in every storage mode
StorageWriteResultAlwaysStored(mode) == [success |-> TRUE, error |-> Null]

\* the return value of handleStorageWrite
StorageWriteResult(mode) ==
  IF mode = "memory" THEN [success |-> TRUE, error |-> Null]
  ELSE [success |-> FALSE, error |-> "disk_storage_not_implemented"]

\* this.log(level, text, relativePath) where loadScript calls it, behind
\* `if (this.verbose)`: one more line on the console
log(console, isVerbose, level, text, fragment) ==
  IF isVerbose
    THEN Append(console, [level |-> level, text |-> text, about |-> fragment])
  ELSE console

\* the Execution Report execute returns; its sessionState and httpLog
\* fields are references to sandbox.context.session and this.httpRequests
Report(st) ==
  [kind |-> "report", fragment |-> NoFragment, message |-> NoMessage,
   filesLoaded |-> st.filesLoaded, httpRequests |-> st.httpRequests,
   storageOps |-> st.storageOps]
\* the Error loadScript throws: `Error in ${relativePath}: ${err.message}`
ScriptError(fragment, message) ==
  [kind |-> "error", fragment |-> fragment, message |-> message,
   filesLoaded |-> 0, httpRequests |-> 0, storageOps |-> 0]
NoOutcome ==
  [kind |-> "none", fragment |-> NoFragment, message |-> NoMessage,
   filesLoaded |-> 0, httpRequests |-> 0, storageOps |-> 0]


\* ------------------------------------------------------------------------
\* engine.js: the simulator as a state machine
\* ------------------------------------------------------------------------
\* a simulator that was never constructed
DefaultProject ==
  [globalCode |-> FALSE, globalVariables |-> FALSE, main |-> FALSE,
   libsDir |-> FALSE, libs |-> {},
   config |-> [readable |-> FALSE, hasOrder |-> FALSE, libraryOrder |-> <<>>]]

\* options.x || default
OrDefault(option, default) ==
  IF option \in {Undefined, Null, ""} THEN default ELSE option

\* a constructor that keeps its defaults whatever the options say
ConstructorDefaultsOnly(opts) ==
  [httpMode |-> "stub", storageMode |-> "memory", environment |-> "acc",
   verbose |-> opts.verbose]

\* the constructor: the fields it derives from its options
Constructor(opts) ==
  [httpMode |-> OrDefault(opts.httpMode, "stub"),
   storageMode |-> OrDefault(opts.storageMode, "memory"),
   environment |-> OrDefault(opts.environment, "acc"),
   verbose |-> opts.verbose]

\* new VocallsSimulator({ projectPath }): no other option supplied
NoOptions ==
  [httpMode |-> Undefined, storageMode |-> Undefined,
   environment |-> Undefined, verbose |-> FALSE]

\* new VocallsSimulator(options) for every session of `active`, the
\* options drawn from optionSet, in a host whose built-ins are untouched
ConstructedWith(active, projects, optionSet) ==
  /\ disk \in [Sessions -> projects \cup {DefaultProject}]
  /\ \A s \in Sessions : (disk[s] = DefaultProject) <=> (s \notin active)
  /\ options \in [Sessions -> optionSet \cup {NoOptions}]
  /\ \A s \in active : options[s] \in optionSet
  /\ \A s \in Sessions \ active : options[s] = NoOptions
  /\ environment = [s \in Sessions |-> Constructor(options[s]).environment]
  /\ httpMode = [s \in Sessions |-> Constructor(options[s]).httpMode]
  /\ storageMode = [s \in Sessions |-> Constructor(options[s]).storageMode]
  /\ verbose = [s \in Sessions |-> Constructor(options[s]).verbose]
  /\ hostBuiltins = [b \in HostBuiltins |-> "native"]
  /\ elapsed = [s \in Sessions |-> 0]
  /\ consoleLog = [s \in Sessions |-> <<>>]
  /\ lastWrite = [s \in Sessions |-> NoWrite]
  /\ stats = [s \in Sessions |->
                [filesLoaded |-> 0, httpRequests |-> 0, storageOps |-> 0]]
  /\ memoryStorage = [s \in Sessions |-> [p \in StoragePaths |-> Undefined]]
  /\ httpRequests = [s \in Sessions |-> <<>>]
  /\ sandbox = [s \in Sessions |-> createSandbox(environment[s], httpMode[s])]
  /\ pc = [s \in Sessions |-> IF s \in active THEN "constructed" ELSE "absent"]
  /\ loadOrder = [s \in Sessions |-> <<>>]
  /\ idx = [s \in Sessions |-> 0]
  /\ outcome = [s \in Sessions |-> NoOutcome]
  /\ evalLog = [s \in Sessions |-> <<>>]
  /\ httpCalls = [s \in Sessions |-> <<>>]
  /\ lastRead = [s \in Sessions |-> NoRead]
  /\ declared = [s \in Sessions |-> {}]
  /\ lastCall = [s \in Sessions |-> NoCall]
  /\ callbacks = [s \in Sessions |-> 0]
  /\ invocation = [s \in Sessions |-> 1]
  /\ scriptName = [s \in Sessions |-> "main"]
  /\ actor = 0

\* every option supplied, verbose off
Constructed(active, projects, envs, modes, smodes) ==
  ConstructedWith(active, projects,
                  [httpMode : modes, storageMode : smodes,
                   environment : envs, verbose : {FALSE}])

SorterIdle ==
  /\ sInput = <<>>
  /\ sFiles = <<>>
  /\ sOrder = <<>>
  /\ sResult = <<>>
  /\ sCalled = FALSE

\* no scan and no assembly asked for
NoBuild == [kind |-> "none", error |-> "none", violations |-> <<>>]
ScannerIdle ==
  /\ scanCode = <<>>
  /\ scanResults = <<>>
  /\ buildMode = FALSE
  /\ buildOutcome = NoBuild
  /\ outputFile = Undefined

\* Node runs a script to completion: while one session is inside
\* runInNewContext no other session takes a step
Running(s) == \A t \in Sessions \ {s} : pc[t] # "evaluating"

CurrentFragment(s) == loadOrder[s][idx[s]]

\* execute up to the for loop of loadProjectFiles
Execute(s) ==
  /\ pc[s] = "constructed"
  /\ Running(s)
  /\ sandbox' = [sandbox EXCEPT ![s] = createSandbox(environment[s], httpMode[s])]
  /\ loadOrder' = [loadOrder EXCEPT ![s] = ResolveLoadOrder(disk[s])]
  /\ idx' = [idx EXCEPT ![s] = 1]
  /\ pc' = [pc EXCEPT ![s] = "loading"]
  /\ actor' = s
  /\ UNCHANGED <<disk, environment, httpMode, storageMode, stats,
                 memoryStorage, httpRequests, outcome, evalLog, httpCalls,
                 lastRead, declared, lastCall, sorterVars, extVars,
                 elapsed, consoleLog, lastWrite>>

\* a loadScript that counts a file it did not find
SkipMissingCounted(s) ==
  /\ pc[s] = "loading"
  /\ Running(s)
  /\ idx[s] <= Len(loadOrder[s])
  /\ ~fileExists(disk[s], CurrentFragment(s))
  /\ stats' = [stats EXCEPT ![s].filesLoaded = @ + 1]
  /\ consoleLog' = [consoleLog EXCEPT ![s] =
                      log(@, verbose[s], "WARN", "File not found",
                          CurrentFragment(s))]
  /\ idx' = [idx EXCEPT ![s] = idx[s] + 1]
  /\ actor' = s
  /\ UNCHANGED <<disk, environment, httpMode, storageMode,
                 memoryStorage, httpRequests, sandbox, pc, loadOrder,
                 outcome, evalLog, httpCalls, lastRead, declared, lastCall,
                 sorterVars, extVars, elapsed, lastWrite>>

\* loadScript of a file that does not exist: return without evaluating
SkipMissing(s) ==
  /\ pc[s] = "loading"
  /\ Running(s)
  /\ idx[s] <= Len(loadOrder[s])
  /\ ~fileExists(disk[s], CurrentFragment(s))
  /\ consoleLog' = [consoleLog EXCEPT ![s] =
                      log(@, verbose[s], "WARN", "File not found",
                          CurrentFragment(s))]
  /\ idx' = [idx EXCEPT ![s] = idx[s] + 1]
  /\ actor' = s
  /\ UNCHANGED <<disk, environment, httpMode, storageMode, stats,
                 memoryStorage, httpRequests, sandbox, pc, loadOrder,
                 outcome, evalLog, httpCalls, lastRead, declared, lastCall,
                 sorterVars, extVars, elapsed, lastWrite>>

\* a loadScript that runs every script in a sandbox of its own
StartEvaluationFreshSandbox(s) ==
  /\ pc[s] = "loading"
  /\ Running(s)
  /\ idx[s] <= Len(loadOrder[s])
  /\ fileExists(disk[s], CurrentFragment(s))
  /\ pc' = [pc EXCEPT ![s] = "evaluating"]
  /\ sandbox' = [sandbox EXCEPT ![s] = createSandbox(environment[s], httpMode[s])]
  /\ evalLog' = [evalLog EXCEPT ![s] = Append(@, [ev |-> "start", at |-> idx[s]])]
  /\ actor' = s
  /\ UNCHANGED <<disk, environment, httpMode, storageMode, stats,
                 memoryStorage, httpRequests, loadOrder, idx,
                 outcome, httpCalls, lastRead, declared, lastCall, sorterVars, extVars,
                 elapsed, consoleLog, lastWrite>>

\* loadScript of an existing file up to script.runInNewContext
StartEvaluation(s) ==
  /\ pc[s] = "loading"
  /\ Running(s)
  /\ idx[s] <= Len(loadOrder[s])
  /\ fileExists(disk[s], CurrentFragment(s))
  /\ pc' = [pc EXCEPT ![s] = "evaluating"]
  /\ evalLog' = [evalLog EXCEPT ![s] = Append(@, [ev |-> "start", at |-> idx[s]])]
  /\ actor' = s
  /\ UNCHANGED <<disk, environment, httpMode, storageMode, stats,
                 memoryStorage, httpRequests, sandbox, loadOrder, idx,
                 outcome, httpCalls, lastRead, declared, lastCall, sorterVars, extVars,
                 elapsed, consoleLog, lastWrite>>

\* runInNewContext returned after d milliseconds, within its timeout:
\* filesLoaded++ and on to the next file
ScriptReturnsAfter(s, d) ==
  /\ pc[s] = "evaluating"
  /\ d <= timeout
  /\ elapsed' = [elapsed EXCEPT ![s] = @ + d]
  /\ stats' = [stats EXCEPT ![s].filesLoaded = @ + 1]
  /\ evalLog' = [evalLog EXCEPT ![s] = Append(@, [ev |-> "end", at |-> idx[s]])]
  /\ consoleLog' = [consoleLog EXCEPT ![s] =
                      log(@, verbose[s], "DEBUG", "Loaded", CurrentFragment(s))]
  /\ idx' = [idx EXCEPT ![s] = idx[s] + 1]
  /\ pc' = [pc EXCEPT ![s] = "loading"]
  /\ actor' = s
  /\ UNCHANGED <<disk, environment, httpMode, storageMode, memoryStorage,
                 httpRequests, sandbox, loadOrder, outcome, httpCalls,
                 lastRead, declared, lastCall, sorterVars, extVars, lastWrite>>

\* a script that returns at once
ScriptReturns(s) ==
  /\ pc[s] = "evaluating"
  /\ ScriptReturnsAfter(s, 0)

\* a catch that drops the error and goes on with the next file
FailsSilently(s, message) ==
  /\ pc' = [pc EXCEPT ![s] = "loading"]
  /\ idx' = [idx EXCEPT ![s] = idx[s] + 1]
  /\ actor' = s
  /\ UNCHANGED <<disk, environment, httpMode, storageMode, stats,
                 memoryStorage, httpRequests, sandbox, loadOrder, outcome,
                 evalLog, httpCalls, lastRead, declared, lastCall,
                 sorterVars, extVars, consoleLog, lastWrite>>

\* the catch of loadScript: execute rejects with the error naming the file
Fails(s, message) ==
  /\ pc' = [pc EXCEPT ![s] = "failed"]
  /\ outcome' = [outcome EXCEPT ![s] = ScriptError(CurrentFragment(s), message)]
  /\ actor' = s
  /\ UNCHANGED <<disk, environment, httpMode, storageMode, stats,
                 memoryStorage, httpRequests, sandbox, loadOrder, idx,
                 evalLog, httpCalls, lastRead, declared, lastCall,
                 sorterVars, extVars, consoleLog, lastWrite>>

\* the script throws (or does not compile, or cannot be read)
ScriptThrows(s) ==
  /\ pc[s] = "evaluating"
  /\ Fails(s, [type |-> "Error", about |-> "thrown by the script"])
  /\ UNCHANGED elapsed

\* the script runs longer than the timeout of runInNewContext and is
\* interrupted when the timeout is over
ScriptTimesOut(s) ==
  /\ pc[s] = "evaluating"
  /\ Fails(s, [type |-> "Error",
               about |-> "Script execution timed out after 5000ms"])
  /\ elapsed' = [elapsed EXCEPT ![s] = @ + timeout]

\* a top-level function declaration: a property of the sandbox object
DeclareFunction(s, f) ==
  /\ pc[s] = "evaluating"
  /\ sandbox[s].functions[f] = 0
  /\ sandbox' = [sandbox EXCEPT ![s].functions[f] = idx[s]]
  /\ declared' = [declared EXCEPT ![s] = @ \cup {f}]
  /\ actor' = s
  /\ UNCHANGED <<disk, environment, httpMode, storageMode, stats,
                 memoryStorage, httpRequests, pc, loadOrder, idx, outcome,
                 evalLog, httpCalls, lastRead, lastCall, sorterVars, extVars,
                 elapsed, consoleLog, lastWrite>>

\* the script calls the global function f: the call goes through when the
\* sandbox object has f, and throws a ReferenceError otherwise
CallFunction(s, f) ==
  /\ pc[s] = "evaluating"
  /\ IF sandbox[s].functions[f] # 0
       THEN /\ lastCall' = [lastCall EXCEPT ![s] =
                              [fn |-> f, at |-> idx[s],
                               by |-> sandbox[s].functions[f]]]
            /\ actor' = s
            /\ UNCHANGED <<disk, environment, httpMode, storageMode, stats,
                           memoryStorage, httpRequests, sandbox, pc,
                           loadOrder, idx, outcome, evalLog, httpCalls,
                           lastRead, declared, sorterVars, extVars,
                 elapsed, consoleLog, lastWrite>>
     ELSE Fails(s, [type |-> "ReferenceError", about |-> f])
          /\ UNCHANGED elapsed

\* the script assigns context.session.variables[k]
AssignVariable(s, k, v) ==
  /\ pc[s] = "evaluating"
  /\ sandbox[s].variables[k] # v
  /\ sandbox' = [sandbox EXCEPT ![s].variables[k] = v]
  /\ actor' = s
  /\ UNCHANGED <<disk, environment, httpMode, storageMode, stats,
                 memoryStorage, httpRequests, pc, loadOrder, idx, outcome,
                 evalLog, httpCalls, lastRead, declared, lastCall, sorterVars, extVars,
                 elapsed, consoleLog, lastWrite>>

\* jsonHttpRequest(config) or httpRequest(config) called by the script
handleHttpRequest(s, config) ==
  /\ pc[s] = "evaluating"
  /\ stats[s].httpRequests + stats[s].storageOps < MaxCalls
  /\ stats' = [stats EXCEPT ![s].httpRequests = @ + 1]
  /\ httpRequests' =
       [httpRequests EXCEPT ![s] =
          IF config.given THEN Append(@, RequestEntry(config)) ELSE @]
  /\ httpCalls' =
       [httpCalls EXCEPT ![s] =
          Append(@, [config |-> config,
                     answer |-> HttpAnswer(httpMode[s], config)])]
  /\ actor' = s
  /\ UNCHANGED <<disk, environment, httpMode, storageMode, memoryStorage,
                 sandbox, pc, loadOrder, idx, outcome, evalLog, lastRead,
                 declared, lastCall, sorterVars, extVars,
                 elapsed, consoleLog, lastWrite>>

\* Storage.readFile(path) called by the script
handleStorageRead(s, path) ==
  /\ pc[s] = "evaluating"
  /\ stats[s].httpRequests + stats[s].storageOps < MaxCalls
  /\ stats' = [stats EXCEPT ![s].storageOps = @ + 1]
  /\ lastRead' = [lastRead EXCEPT ![s] =
                    StorageReadResult(storageMode[s], memoryStorage[s], path)]
  /\ actor' = s
  /\ UNCHANGED <<disk, environment, httpMode, storageMode, memoryStorage,
                 httpRequests, sandbox, pc, loadOrder, idx, outcome, evalLog,
                 httpCalls, declared, lastCall, sorterVars, extVars,
                 elapsed, consoleLog, lastWrite>>

\* a writeFile that keeps the contents in one map for all simulators
handleStorageWriteShared(s, path, content) ==
  /\ pc[s] = "evaluating"
  /\ stats[s].httpRequests + stats[s].storageOps < MaxCalls
  /\ stats' = [stats EXCEPT ![s].storageOps = @ + 1]
  /\ memoryStorage' =
       [t \in Sessions |->
          [memoryStorage[t] EXCEPT ![path] =
             IF storageMode[s] = "memory" THEN content ELSE @]]
  /\ lastWrite' = [lastWrite EXCEPT ![s] = StorageWriteResult(storageMode[s])]
  /\ actor' = s
  /\ UNCHANGED <<disk, environment, httpMode, storageMode, httpRequests,
                 sandbox, pc, loadOrder, idx, outcome, evalLog, httpCalls,
                 lastRead, declared, lastCall, sorterVars, extVars,
                 elapsed, consoleLog>>

\* Storage.writeFile(path, content) called by the script
handleStorageWrite(s, path, content) ==
  /\ pc[s] = "evaluating"
  /\ stats[s].httpRequests + stats[s].storageOps < MaxCalls
  /\ stats' = [stats EXCEPT ![s].storageOps = @ + 1]
  /\ memoryStorage' =
       [memoryStorage EXCEPT ![s][path] =
          IF storageMode[s] = "memory" THEN StoredContent(content) ELSE @]
  /\ lastWrite' = [lastWrite EXCEPT ![s] = StorageWriteResult(storageMode[s])]
  /\ actor' = s
  /\ UNCHANGED <<disk, environment, httpMode, storageMode, httpRequests,
                 sandbox, pc, loadOrder, idx, outcome, evalLog, httpCalls,
                 lastRead, declared, lastCall, sorterVars, extVars,
                 elapsed, consoleLog>>

\* the script calls the Node.js global g (setTimeout(...), require(...),
\* console.log(...)): a TypeError when the sandbox binds g to undefined,
\* and a call that goes through otherwise
CallHostGlobal(s, g) ==
  /\ pc[s] = "evaluating"
  /\ IF SandboxBinding(g) = Undefined
       THEN /\ Fails(s, [type |-> "TypeError", about |-> g])
            /\ UNCHANGED elapsed
     ELSE /\ lastCall' = [lastCall EXCEPT ![s] =
                            [fn |-> g, at |-> idx[s], by |-> 0]]
          /\ actor' = s
          /\ UNCHANGED <<disk, environment, httpMode, storageMode, stats,
                         memoryStorage, httpRequests, sandbox, pc, loadOrder,
                         idx, outcome, evalLog, httpCalls, lastRead, declared,
                         sorterVars, extVars, elapsed, consoleLog, lastWrite>>

\* the script changes a property of the built-in b (Math.round = ...,
\* Object.prototype.x = ...): the sandbox binds the host's own object
PatchBuiltin(s, b) ==
  /\ pc[s] = "evaluating"
  /\ hostBuiltins[b] = "native"
  /\ hostBuiltins' = [hostBuiltins EXCEPT ![b] = "patched"]
  /\ actor' = s
  /\ UNCHANGED <<disk, environment, httpMode, storageMode, stats,
                 memoryStorage, httpRequests, sandbox, pc, loadOrder, idx,
                 outcome, evalLog, httpCalls, lastRead, declared, lastCall,
                 sorterVars, verbose, options, scanVars, runVars, elapsed, consoleLog,
                 lastWrite>>

\* the script changes a property of its Promise binding: the
\* VocallsPromise class createLimitedPromise made for this sandbox
PatchPromise(s) ==
  /\ pc[s] = "evaluating"
  /\ sandbox[s].Promise = createLimitedPromise
  /\ sandbox' = [sandbox EXCEPT ![s].Promise = "patched"]
  /\ actor' = s
  /\ UNCHANGED <<disk, environment, httpMode, storageMode, stats,
                 memoryStorage, httpRequests, pc, loadOrder, idx, outcome,
                 evalLog, httpCalls, lastRead, declared, lastCall,
                 sorterVars, extVars, elapsed, consoleLog, lastWrite>>

\* the script changes the class its Promise binding extends
\* (Object.getPrototypeOf(Promise).resolve = ...): the host's Promise
PatchPromiseBase(s) ==
  /\ pc[s] = "evaluating"
  /\ PatchBuiltin(s, "Promise")

\* what a script of session s finds behind the binding b of its sandbox
Observes(s, b) ==
  IF b = "Promise" THEN <<sandbox[s].Promise, hostBuiltins["Promise"]>>
  ELSE <<hostBuiltins[b]>>

\* the for loop of loadProjectFiles is through: execute returns the report
ReturnReport(s) ==
  /\ pc[s] = "loading"
  /\ Running(s)
  /\ idx[s] > Len(loadOrder[s])
  /\ pc' = [pc EXCEPT ![s] = "done"]
  /\ outcome' = [outcome EXCEPT ![s] = Report(stats[s])]
  /\ actor' = s
  /\ UNCHANGED <<disk, environment, httpMode, storageMode, stats,
                 memoryStorage, httpRequests, sandbox, loadOrder, idx,
                 evalLog, httpCalls, lastRead, declared, lastCall, sorterVars, extVars,
                 elapsed, consoleLog, lastWrite>>

\* the sessionState and httpLog fields of a returned report
ReportSessionState(s) == sandbox[s].variables
ReportHttpLog(s) == httpRequests[s]

\* the steps of execute and loadScript
Load(s) ==
  \/ Execute(s)
  \/ SkipMissing(s)
  \/ StartEvaluation(s)
  \/ ScriptReturns(s)
  \/ ScriptThrows(s)
  \/ ScriptTimesOut(s)
  \/ ReturnReport(s)

\* what a script does with the global scope
UseScope(s) ==
  \/ \E f \in FunctionNames : DeclareFunction(s, f)
  \/ \E f \in FunctionNames : CallFunction(s, f)

\* what a script does with the bindings of the sandbox
UseSandbox(s) ==
  \/ \E k \in VarKeys, v \in VarValues : AssignVariable(s, k, v)
  \/ \E config \in HttpConfigs : handleHttpRequest(s, config)
  \/ \E path \in StoragePaths : handleStorageRead(s, path)
  \/ \E path \in StoragePaths, content \in StorageContents :
       handleStorageWrite(s, path, content)

\* what a script does to the built-ins bound in its sandbox
UseBuiltins(s) ==
  \/ \E b \in SharedBuiltins : PatchBuiltin(s, b)
  \/ PatchPromise(s)
  \/ PatchPromiseBase(s)

Next == \E s \in Sessions : Load(s) \/ UseScope(s) \/ UseSandbox(s)

\* one session, any script, against the projects with one library
Init ==
  /\ Constructed({1}, OneLibraryProjects, {"acc"}, HttpModes, StorageModes)
  /\ SorterIdle
  /\ ScannerIdle

Spec == Init /\ [][Next]_vars

\* one session, verbose or not, against every project directory; the
\* scripts declare and call global functions and leave the host API alone
NextLoadOrder == \E s \in Sessions : Load(s) \/ UseScope(s)

InitLoadOrder ==
  /\ ConstructedWith({1}, Projects,
                     [httpMode : {"stub"}, storageMode : {"memory"},
                      environment : {"acc"}, verbose : BOOLEAN])
  /\ SorterIdle
  /\ ScannerIdle

SpecLoadOrder == InitLoadOrder /\ [][NextLoadOrder]_vars

\* two sessions against two different projects, run concurrently
NextConcurrent == \E s \in Sessions : Load(s) \/ UseSandbox(s)

InitConcurrent ==
  /\ Constructed({1, 2}, EntryProjects, {"acc"}, {"stub"}, {"memory"})
  /\ disk[1].globalCode /\ ~disk[2].globalCode
  /\ SorterIdle
  /\ ScannerIdle

SpecConcurrent == InitConcurrent /\ [][NextConcurrent]_vars

\* simulateProject(projectName, { env, mode }) on a scaffolded project,
\* each option supplied or not; the template scripts run through and set
\* session variables of their own
ScaffoldOptions ==
  [httpMode : HttpModes \cup {Undefined}, storageMode : {Undefined},
   environment : Environments \cup {Undefined}, verbose : {FALSE}]

InitScaffold ==
  /\ ConstructedWith({1}, ScaffoldedProjects, ScaffoldOptions)
  /\ SorterIdle
  /\ ScannerIdle

ScaffoldStep(s) ==
  \/ Execute(s)
  \/ SkipMissing(s)
  \/ StartEvaluation(s)
  \/ ScriptReturns(s)
  \/ ReturnReport(s)
  \/ \E k \in VarKeys, v \in VarValues : AssignVariable(s, k, v)

NextScaffold == \E s \in Sessions : ScaffoldStep(s)

\* execute is a chain of awaits the event loop keeps running
SpecScaffold == InitScaffold /\ [][NextScaffold]_vars /\ WF_vars(NextScaffold)

\* one session whose scripts call Node.js globals
NextHostGlobals ==
  \E s \in Sessions : Load(s) \/ \E g \in HiddenGlobals : CallHostGlobal(s, g)

SpecHostGlobals == Init /\ [][NextHostGlobals]_vars

\* one session whose scripts take time
LoadTimed(s) ==
  \/ Execute(s)
  \/ SkipMissing(s)
  \/ StartEvaluation(s)
  \/ \E d \in ScriptDurations : ScriptReturnsAfter(s, d)
  \/ ScriptThrows(s)
  \/ ScriptTimesOut(s)
  \/ ReturnReport(s)

NextBudget == \E s \in Sessions : LoadTimed(s)

SpecBudget == Init /\ [][NextBudget]_vars

\* two sessions run concurrently; the scripts change built-ins
NextBuiltins == \E s \in Sessions : Load(s) \/ UseBuiltins(s)

SpecBuiltins == InitConcurrent /\ [][NextBuiltins]_vars

\* ------------------------------------------------------------------------
\* sorting.js: a caller hands a list of file names and an explicit order
\* to sortLibraryFilesWithDependencies
\* ------------------------------------------------------------------------
\* the lists of at most n different names of S
Listings(S, n) ==
  { l \in UNION { [1..k -> S] : k \in 0..n } :
      \A i, j \in 1..Len(l) : l[i] = l[j] => i = j }

InitSort ==
  /\ Constructed({}, {}, {"acc"}, {"stub"}, {"memory"})
  /\ sInput \in Listings(SortNames, MaxFiles)
  /\ sFiles = sInput
  /\ sOrder \in UNION { [1..k -> OrderNames] : k \in 0..MaxOrder }
  /\ sResult = <<>>
  /\ sCalled = FALSE
  /\ ScannerIdle

SortCall ==
  /\ ~sCalled
  /\ sResult' = sortLibraryFilesWithDependencies(sFiles, sOrder)
  /\ sFiles' = FilesAfterSort(sFiles, sOrder)
  /\ sCalled' = TRUE
  /\ UNCHANGED <<sInput, sOrder, sessionVars, extVars>>

NextSort == SortCall

SpecSort == InitSort /\ [][NextSort]_vars


\* ------------------------------------------------------------------------
\* Properties of the simulation session
\* ------------------------------------------------------------------------
\* the positions of the load order whose evaluation was started, in the
\* order of the runInNewContext calls
StartedAt(s) ==
  LET starts == SelectSeq(evalLog[s], LAMBDA e : e.ev = "start") IN
  [i \in 1..Len(starts) |-> starts[i].at]

\* the library files evaluated, in the order of their evaluation
EvaluatedLibraries(s) ==
  LET libs == SelectSeq(StartedAt(s),
                        LAMBDA p : loadOrder[s][p].role = "library") IN
  [i \in 1..Len(libs) |-> loadOrder[s][libs[i]].name]

\* the positions before position n whose file exists
ExistingBefore(s, n) ==
  { p \in 1..Len(loadOrder[s]) : p < n /\ fileExists(disk[s], loadOrder[s][p]) }

\* the evaluations follow the positions of loadOrder: one at a time, each
\* started after the one before it has ended, every existing file of a
\* position that was passed evaluated, init first, globals second, the
\* libraries next and the entry script last
EvaluationFollowsLoadOrder ==
  \A s \in Sessions :
    pc[s] \in {"loading", "evaluating", "done", "failed"} =>
      /\ \A i \in 1..Len(evalLog[s]) :
           /\ evalLog[s][i].ev = (IF i % 2 = 1 THEN "start" ELSE "end")
           /\ i % 2 = 0 => evalLog[s][i].at = evalLog[s][i - 1].at
      /\ \A i, j \in 1..Len(StartedAt(s)) :
           i < j => StartedAt(s)[i] < StartedAt(s)[j]
      /\ { StartedAt(s)[i] : i \in 1..Len(StartedAt(s)) } =
           ExistingBefore(s, IF pc[s] = "loading" \/ pc[s] = "done"
                               THEN idx[s] ELSE idx[s] + 1)
      /\ Len(loadOrder[s]) >= 3
      /\ loadOrder[s][1] = InitFragment
      /\ loadOrder[s][2] = GlobalsFragment
      /\ loadOrder[s][Len(loadOrder[s])] = EntryFragment
      /\ \A p \in 3..(Len(loadOrder[s]) - 1) : loadOrder[s][p].role = "library"

\* C1: the fragments are evaluated one at a time in the resolved load
\* order (init, globals, the libraries, the entry script), no evaluation
\* starts before the previous one has finished, and no fragment is
\* evaluated twice or out of order.
C1_LoadOrderEachFragmentOnce ==
  /\ EvaluationFollowsLoadOrder
  /\ \A s \in Sessions :
       \A i, j \in 1..Len(StartedAt(s)) :
         loadOrder[s][StartedAt(s)[i]] = loadOrder[s][StartedAt(s)[j]] => i = j

\* C2: the fragments of a session share one scope. A function declared by
\* an evaluated fragment stays in the sandbox for every later fragment, a
\* call that goes through reaches a function declared by the calling
\* fragment or an earlier one, and a call fails, with a ReferenceError
\* attributed to the calling fragment, only when no fragment evaluated so
\* far declared the function.
C2_SharedScope ==
  \A s \in Sessions :
    /\ pc[s] \in {"loading", "evaluating", "done"} =>
         \A f \in declared[s] : sandbox[s].functions[f] \in 1..idx[s]
    /\ lastCall[s] # NoCall =>
         /\ lastCall[s].fn \in declared[s]
         /\ lastCall[s].by \in 1..lastCall[s].at
         /\ fileExists(disk[s], loadOrder[s][lastCall[s].by])
    /\ (outcome[s].kind = "error" /\ outcome[s].message.type = "ReferenceError") =>
         /\ outcome[s].message.about \notin declared[s]
         /\ outcome[s].fragment = loadOrder[s][idx[s]]

\* a run that succeeded in which a fragment called a function that an
\* earlier fragment declared
C2_Witness ==
  \E s \in Sessions :
    /\ pc[s] = "done"
    /\ lastCall[s] # NoCall
    /\ lastCall[s].by < lastCall[s].at

\* the state of a failed execute: the error names the fragment whose
\* evaluation was started last and never ended, and no report exists
FailureState(s) ==
  /\ pc[s] = "failed" <=> outcome[s].kind = "error"
  /\ pc[s] = "done" <=> outcome[s].kind = "report"
  /\ Len(evalLog[s]) % 2 = 1 => pc[s] \in {"evaluating", "failed"}
  /\ pc[s] = "failed" =>
       /\ Len(evalLog[s]) % 2 = 1
       /\ evalLog[s][Len(evalLog[s])] = [ev |-> "start", at |-> idx[s]]
       /\ outcome[s].fragment = loadOrder[s][idx[s]]
       /\ outcome[s].message.type \in {"Error", "ReferenceError"}
       /\ outcome[s].message.about # ""

ExplicitOrder(project) ==
  IF project.config.readable /\ project.config.hasOrder
    THEN project.config.libraryOrder
  ELSE <<>>

\* the .js files of the library directory in every order readdir can list
\* them in
LibraryListings(project) ==
  LET js == { n \in project.libs : EndsWithJs(n) } IN
  { l \in Listings(js, Cardinality(js)) : Len(l) = Cardinality(js) }

\* C4: the library fragments a session evaluates are the sequence
\* sortLibraryFilesWithDependencies returns for the files of the library
\* directory and the explicit libraryOrder.
C4_SessionUsesSorter ==
  \A s \in Sessions :
    (pc[s] = "done" /\ disk[s].libsDir) =>
      \E l \in LibraryListings(disk[s]) :
        EvaluatedLibraries(s) =
          SelectSeq(sortLibraryFilesWithDependencies(l, ExplicitOrder(disk[s])),
                    LAMBDA n : n \in disk[s].libs)

\* C5: without project.json, without libraryOrder or with an empty
\* libraryOrder the session evaluates every .js file of the library
\* directory in fallback order.
C5_NoExplicitOrderFallsBack ==
  \A s \in Sessions :
    (pc[s] = "done" /\ disk[s].libsDir /\ ExplicitOrder(disk[s]) = <<>>) =>
      \E l \in LibraryListings(disk[s]) :
        EvaluatedLibraries(s) = sortLibraryFiles(l)

\* C8 as stated: a session in real mode never completes with a report and
\* never answers a call with the stub response.
C8_RealModeNeverCompletes ==
  \A s \in Sessions :
    httpMode[s] = "real" =>
      /\ outcome[s].kind # "report"
      /\ \A i \in 1..Len(httpCalls[s]) : httpCalls[s][i].answer.state = "rejected"

\* C8: in real mode every HTTP call is answered with a rejected promise,
\* which carries the not-implemented error when the call had a config, and
\* never with the stub response.
C8_RealModeRejectsCalls ==
  \A s \in Sessions :
    httpMode[s] = "real" =>
      \A i \in 1..Len(httpCalls[s]) :
        /\ httpCalls[s][i].answer.state = "rejected"
        /\ httpCalls[s][i].answer.value = NoResponse
        /\ httpCalls[s][i].config.given =>
             httpCalls[s][i].answer.error =
               "Real HTTP mode not implemented in this demo"

\* a session in real mode that made an HTTP call and returned a report
C8_Witness ==
  \E s \in Sessions :
    /\ httpMode[s] = "real"
    /\ pc[s] = "done"
    /\ \E i \in 1..Len(httpCalls[s]) : httpCalls[s][i].config.given

\* C9: in stub mode the report of a session whose fragments made n HTTP
\* calls has an HTTP call count of n and a log of n entries, in the order
\* of the calls, each with the URL and the method of its call.
C9_LogMatchesCalls ==
  \A s \in Sessions :
    (httpMode[s] = "stub" /\ outcome[s].kind = "report") =>
      /\ outcome[s].httpRequests = Len(httpCalls[s])
      /\ Len(ReportHttpLog(s)) = Len(httpCalls[s])
      /\ \A i \in 1..Len(ReportHttpLog(s)) :
           /\ i <= Len(httpCalls[s])
           /\ ReportHttpLog(s)[i].url = httpCalls[s][i].config.url
           /\ httpCalls[s][i].config.method # Undefined =>
                ReportHttpLog(s)[i].method = httpCalls[s][i].config.method

\* what a session can observe of itself
SessionState(s) ==
  <<sandbox[s], memoryStorage[s], httpRequests[s], stats[s], lastRead[s],
    httpCalls[s], outcome[s]>>

\* C10: no step of one session changes the session variables, the
\* storage, the storage reads, the counters or the HTTP log of another
\* session.
C10_SessionsIsolated ==
  [][\A t \in Sessions : t # actor' => SessionState(t)' = SessionState(t)]_vars

\* session 1 wrote to its storage, its session variables and made an HTTP
\* call; session 2 then read the path and found nothing
C10_Witness ==
  /\ actor = 2
  /\ pc[2] = "evaluating"
  /\ \E p \in StoragePaths :
       /\ memoryStorage[1][p] # Undefined
       /\ memoryStorage[2][p] = Undefined
  /\ \E k \in VarKeys : sandbox[1].variables[k] # Undefined
  /\ \A k \in VarKeys : sandbox[2].variables[k] = Undefined
  /\ httpRequests[1] # <<>>
  /\ httpRequests[2] = <<>>
  /\ stats[2] = [filesLoaded |-> 0, httpRequests |-> 0, storageOps |-> 1]
  /\ lastRead[2].error = "file_not_found"


\* ------------------------------------------------------------------------
\* Properties of the sorter
\* ------------------------------------------------------------------------
\* the library section of the assembled output: the assembler applies the
\* sorter to the files of the library directory and the explicit order
assembleLibraries(files, libraryOrder) ==
  sortLibraryFilesWithDependencies(files, libraryOrder)

\* the elements of a sequence
Range(seq) == { seq[i] : i \in 1..Len(seq) }

\* seq lists every element of S once
ListsOnce(seq, S) ==
  /\ Range(seq) = S
  /\ Len(seq) = Cardinality(S)

\* the numeric value of the leading digit run, read digit by digit
LeadingNumber(name) == parseInt(LeadingDigitRun(name))

\* names in fallback order: names that begin with a digit before the
\* others, by ascending leading number; the others lexicographically
InFallbackOrder(seq) ==
  \A i, j \in 1..Len(seq) :
    i < j =>
      /\ IsDigit(seq[j][1]) => IsDigit(seq[i][1])
      /\ (IsDigit(seq[i][1]) /\ IsDigit(seq[j][1])) =>
           LeadingNumber(seq[i]) <= LeadingNumber(seq[j])
      /\ (~IsDigit(seq[i][1]) /\ ~IsDigit(seq[j][1])) =>
           localeCompare(seq[i], seq[j]) <= 0

ExampleNames == {F10tenth, F2second, F1first, Falpha, Fbeta}
ExampleSorted == <<F1first, F2second, F10tenth, Falpha, Fbeta>>

\* C6: with an empty explicit order the sorter lists every name, the
\* names that begin with a digit first and by ascending leading number
\* (2 before 10), the others in lexicographic order; the five names of the
\* example come out as 1-first, 2-second, 10-tenth, alpha, beta, and the
\* assembled output lists the libraries in the same order.
C6_FallbackOrder ==
  (sCalled /\ sOrder = <<>>) =>
    /\ ListsOnce(sResult, Range(sInput))
    /\ InFallbackOrder(sResult)
    /\ Range(sInput) = ExampleNames => sResult = ExampleSorted
    /\ assembleLibraries(sInput, sOrder) = sResult

\* the call of the example: order(['10-tenth.js', '2-second.js',
\* '1-first.js', 'alpha.js', 'beta.js'], [])
C6_Witness ==
  /\ sCalled
  /\ sOrder = <<>>
  /\ sInput = <<F10tenth, F2second, F1first, Falpha, Fbeta>>
  /\ sResult = ExampleSorted

\* the names of the input that the explicit order does not mention
Unmentioned == Range(sInput) \ Range(sOrder)

\* C7: with a non-empty explicit order the result starts with the
\* explicit order in its given sequence, so every explicitly ordered name
\* that exists in the input stands before every name the explicit order
\* does not mention, and the unmentioned names follow in fallback order.
C7_ExplicitOrderFirst ==
  (sCalled /\ Len(sOrder) > 0) =>
    /\ Len(sResult) >= Len(sOrder)
    /\ SubSeq(sResult, 1, Len(sOrder)) = sOrder
    /\ \A i, j \in 1..Len(sResult) :
         (/\ sResult[i] \in Range(sOrder) \cap Range(sInput)
          /\ sResult[j] \notin Range(sOrder)) => i < j
    /\ ListsOnce(SubSeq(sResult, Len(sOrder) + 1, Len(sResult)), Unmentioned)
    /\ InFallbackOrder(SubSeq(sResult, Len(sOrder) + 1, Len(sResult)))

\* a call with an explicit order of two names, one of them in the input,
\* and two input names it does not mention, listed against fallback order
C7_Witness ==
  /\ sCalled
  /\ sOrder = <<FZeta, F1first>>
  /\ sInput = <<Falpha, F10tenth, FZeta, F2second>>
  /\ sResult = <<FZeta, F1first, F2second, F10tenth, Falpha>>

\* C11: sessions share no mutable state: a step of one session (a script
\* changing any binding of its sandbox, the built-ins and Promise included)
\* leaves what every other session observes behind its bindings, and the
\* other session's state, as they were.
C11_NoSharedMutableState ==
  [][\A t \in Sessions :
       t # actor' =>
         /\ SessionState(t)' = SessionState(t)
         /\ \A b \in HostBuiltins : Observes(t, b)' = Observes(t, b)]_vars

\* C12: the execution budget (5000 ms) bounds the whole run: a run whose
\* fragments together took more than the budget has not completed, and a
\* failed run hands its caller an error naming the fragment in progress
\* and no report.
C12_BudgetBoundsRun ==
  \A s \in Sessions :
    /\ pc[s] = "done" => elapsed[s] <= timeout
    /\ pc[s] = "failed" =>
         /\ outcome[s].kind = "error"
         /\ outcome[s].fragment = CurrentFragment(s)

\* the fragments every project is required to have
RequiredRoles == {"init", "globals", "entry"}

\* C13: when loadScript finds a required fragment (init, globals, entry)
\* absent, it logs one warning about that fragment, skips it and goes on
\* with the next fragment of the load order; the run does not fail there.
C13_MissingFragmentWarned ==
  [][\A s \in Sessions :
       (SkipMissing(s) /\ CurrentFragment(s).role \in RequiredRoles) =>
         /\ consoleLog'[s] =
              Append(consoleLog[s],
                     [level |-> "WARN", text |-> "File not found",
                      about |-> CurrentFragment(s)])
         /\ pc'[s] = "loading"
         /\ idx'[s] = idx[s] + 1
         /\ outcome'[s] = outcome[s]]_vars

\* ------------------------------------------------------------------------
\* validation.js: validateES51Compliance
\* ------------------------------------------------------------------------
\* most lines of a source text, and most calls of the scanner on it
MaxLines == 3
MaxScans == 2

\* the lines a source text is made of
BlockScopedLines == {"const x = 1;", "let y = 2;"}
CompliantLines ==
  {"var x = 1;", "function test() { return x; }", "logInfo('test');",
   "// const x = 1;"}
SourceLines == BlockScopedLines \cup CompliantLines
SourceTexts == UNION { [1..n -> SourceLines] : n \in 1..MaxLines }

\* the two regular expression literals of the comment stripping, character
\* by character as the file spells them
BlockCommentLiteral ==
  <<"/","\\","\\","/","\\","\\","*","[","\\","\\","s","\\","\\","S","]","*",
    "?","\\","\\","*","\\","\\","/","/","g">>
LineCommentLiteral ==
  <<"/","\\","\\","/","\\","\\","/",".","*","$","/">>

RECURSIVE RegexBodyEnd(_, _, _)
\* where the regular expression literal that opens at src[1] closes: the
\* first "/" from position i on that is neither escaped by a backslash nor
\* inside a [class]; 0 when there is none
RegexBodyEnd(src, i, inClass) ==
  IF i > Len(src) THEN 0
  ELSE IF src[i] = "\\" THEN RegexBodyEnd(src, i + 2, inClass)
  ELSE IF inClass THEN RegexBodyEnd(src, i + 1, src[i] # "]")
  ELSE IF src[i] = "[" THEN RegexBodyEnd(src, i + 1, TRUE)
  ELSE IF src[i] = "/" THEN i
  ELSE RegexBodyEnd(src, i + 1, FALSE)

\* the characters that may follow the closing "/" as flags
IsFlagChar(c) == InSeq(LowerCase, c)

\* the text is one regular expression literal, body and flags, so that the
\* argument list of replace( ... , '') goes on after it
LexesAsRegex(src) ==
  LET end == RegexBodyEnd(src, 2, FALSE) IN
  /\ end > 2
  /\ \A j \in (end + 1)..Len(src) : IsFlagChar(src[j])

\* the module can be parsed, and with it imported
ModuleParses == LexesAsRegex(BlockCommentLiteral) /\ LexesAsRegex(LineCommentLiteral)

\* code.split('\\n'): the separator is a backslash followed by n, which
\* no text made of SourceLines holds, so the text stays one line however
\* many line ends it has
SplitLines(code) == <<code>>

\* the rules as spelled ask for a backslash where a word boundary, a space
\* class or an escaped character was meant, and the source lines hold no
\* backslash and no backtick: the one rule left is /\\?\\?/, which matches
\* the empty string and with it every line
ViolationsOfLine(line, number) ==
  <<[line |-> number,
     message |-> "nullish coalescing (??) not allowed in ES5.1"]>>

RECURSIVE ScanLines(_, _)
\* lines.forEach from line number `from` on
ScanLines(lines, from) ==
  IF from > Len(lines) THEN <<>>
  ELSE ViolationsOfLine(lines[from], from) \o ScanLines(lines, from + 1)

\* what a caller of validateES51Compliance(code) gets: an import of a
\* module that cannot be parsed throws a SyntaxError before any call
validateES51Compliance(code) ==
  IF ModuleParses
    THEN [threw |-> FALSE, error |-> "none",
          violations |-> ScanLines(SplitLines(code), 1)]
  ELSE [threw |-> TRUE, error |-> "SyntaxError", violations |-> <<>>]

\* one more call of the scanner on the text
Scan ==
  /\ scanCode # <<>>
  /\ Len(scanResults) < MaxScans
  /\ scanResults' = Append(scanResults, validateES51Compliance(scanCode))
  /\ UNCHANGED <<scanCode, buildMode, buildOutcome, outputFile, sessionVars,
                 sorterVars, verbose, options, hostBuiltins, runVars>>


\* ------------------------------------------------------------------------
\* the Assembler (build): fragments in load order, each run through the
\* scanner, the output persisted unless production meets a violation
\* ------------------------------------------------------------------------
\* the project assembled: an init fragment and the entry fragment, whose
\* text is the text under scan
BuildFragments ==
  <<[name |-> "src/globalCode.js", code |-> <<"var x = 1;">>],
    [name |-> "src/callScripts/main.js", code |-> scanCode]>>

\* the violations of one fragment, tagged with the fragment's name
TagViolations(name, violations) ==
  [j \in 1..Len(violations) |->
     [fragment |-> name, line |-> violations[j].line,
      message |-> violations[j].message]]

RECURSIVE CollectViolations(_, _)
\* the accumulated list over the fragments from position `from` on
CollectViolations(fragments, from) ==
  IF from > Len(fragments) THEN <<>>
  ELSE TagViolations(fragments[from].name,
                     validateES51Compliance(fragments[from].code).violations)
       \o CollectViolations(fragments, from + 1)

\* the output text: the fragments' raw texts in order
OutputText(fragments) == [i \in 1..Len(fragments) |-> fragments[i].code]

\* assemble(project, { production }): what the caller gets
assemble(fragments, production) ==
  IF \E i \in 1..Len(fragments) : validateES51Compliance(fragments[i].code).threw
    THEN [kind |-> "failed", error |-> "SyntaxError", violations |-> <<>>]
  ELSE IF production /\ CollectViolations(fragments, 1) # <<>>
    THEN [kind |-> "failed", error |-> "compliance violations",
          violations |-> CollectViolations(fragments, 1)]
  ELSE [kind |-> "built", error |-> "none",
        violations |-> CollectViolations(fragments, 1)]

\* one assembly of the project
Build ==
  /\ scanCode # <<>>
  /\ buildOutcome = NoBuild
  /\ buildOutcome' = assemble(BuildFragments, buildMode)
  /\ outputFile' = IF assemble(BuildFragments, buildMode).kind = "built"
                     THEN OutputText(BuildFragments)
                   ELSE outputFile
  /\ UNCHANGED <<scanCode, scanResults, buildMode, sessionVars, sorterVars,
                 verbose, options, hostBuiltins, runVars>>

\* a source text, scanned and assembled, in production mode or not
InitScan ==
  /\ Constructed({}, {}, {"acc"}, {"stub"}, {"memory"})
  /\ SorterIdle
  /\ scanCode \in SourceTexts
  /\ scanResults = <<>>
  /\ buildMode \in BOOLEAN
  /\ buildOutcome = NoBuild
  /\ outputFile = Undefined

NextScan == Scan \/ Build

SpecScan == InitScan /\ [][NextScan]_vars


\* the state of session s a script can read back, its counters aside
VisibleState(s) ==
  <<memoryStorage[s], sandbox[s].variables, httpRequests[s], pc[s], outcome[s]>>

NotFound == [success |-> FALSE, text |-> Null, error |-> "file_not_found"]

\* C14: in memory mode a Storage.readFile of a path nothing was written to
\* returns the not-found result (success false, text null, error
\* 'file_not_found') to the script, which goes on running; the read counts
\* one storage operation and changes nothing else of the session.
C14_MissingReadNotFound ==
  [][\A s \in Sessions, path \in StoragePaths :
       ( /\ handleStorageRead(s, path)
         /\ storageMode[s] = "memory"
         /\ memoryStorage[s][path] = Undefined ) =>
         /\ lastRead'[s] = NotFound
         /\ VisibleState(s)' = VisibleState(s)
         /\ stats'[s] = [stats[s] EXCEPT !.storageOps = @ + 1]]_vars

C14_Witness ==
  \E s \in Sessions :
    /\ storageMode[s] = "memory"
    /\ lastRead[s] = NotFound
    /\ stats[s].storageOps = 1
    /\ pc[s] = "done"

NotImplementedRead ==
  [success |-> FALSE, text |-> Null, error |-> "disk_storage_not_implemented"]
NotImplementedWrite ==
  [success |-> FALSE, error |-> "disk_storage_not_implemented"]

\* C15: with storageMode 'disk' every Storage.readFile and every
\* Storage.writeFile returns the not-implemented failure, no read returns
\* content, and the in-memory mapping stays as constructed: empty.
C15_DiskModeFailsExplicitly ==
  /\ [](\A s \in Sessions :
          storageMode[s] = "disk" =>
            /\ \A path \in StoragePaths : memoryStorage[s][path] = Undefined
            /\ lastRead[s] \in {NoRead, NotImplementedRead}
            /\ lastWrite[s] \in {NoWrite, NotImplementedWrite})
  /\ [][\A s \in Sessions :
         storageMode[s] = "disk" =>
           /\ (\E path \in StoragePaths : handleStorageRead(s, path))
                => lastRead'[s] = NotImplementedRead
           /\ (\E path \in StoragePaths, content \in StorageContents :
                  handleStorageWrite(s, path, content))
                => lastWrite'[s] = NotImplementedWrite]_vars

C15_Witness ==
  \E s \in Sessions :
    /\ storageMode[s] = "disk"
    /\ lastRead[s] = NotImplementedRead
    /\ lastWrite[s] = NotImplementedWrite
    /\ stats[s].storageOps = 2

\* the host capabilities the dialect forbids
ForbiddenCapabilities ==
  {"console", "setTimeout", "setInterval", "clearTimeout", "clearInterval",
   "require", "process", "module", "global"}

\* C16: every sandbox binds the forbidden host capabilities to undefined,
\* and a script's call of one of them is a TypeError there: the run fails
\* with the error naming the fragment that made the call, and the call
\* does not go through.
C16_HostCapabilitiesSuppressed ==
  /\ [](\A g \in ForbiddenCapabilities : SandboxBinding(g) = Undefined)
  /\ [][\A s \in Sessions, g \in ForbiddenCapabilities :
         CallHostGlobal(s, g) =>
           /\ pc'[s] = "failed"
           /\ outcome'[s] = ScriptError(CurrentFragment(s),
                                        [type |-> "TypeError", about |-> g])
           /\ lastCall'[s] = lastCall[s]]_vars

C16_Witness ==
  \E s \in Sessions :
    /\ pc[s] = "failed"
    /\ outcome[s].message = [type |-> "TypeError", about |-> "setTimeout"]
    /\ outcome[s].fragment = EntryFragment
    /\ stats[s].filesLoaded > 0

\* the tags the caller of simulateProject asked for, 'acc' and 'stub'
\* standing for an option that was not supplied
RequestedEnvironment(s) ==
  IF options[s].environment = Undefined THEN "acc" ELSE options[s].environment
RequestedMode(s) ==
  IF options[s].httpMode = Undefined THEN "stub" ELSE options[s].httpMode

BlockScopedAt == { i \in 1..Len(scanCode) : scanCode[i] \in BlockScopedLines }

\* C18: whenever a line of the text holds `const x = 1;` or `let y = 2;`
\* outside a comment, every scan of the text returns a Violation whose
\* line is the 1-based number of that line.
C18_BlockScopedLineReported ==
  \A k \in 1..Len(scanResults) :
    \A i \in BlockScopedAt :
      \E j \in 1..Len(scanResults[k].violations) :
        scanResults[k].violations[j].line = i

\* C19: no scan throws, two scans of the same text return the same list
\* and leave the text alone, and the list is empty when every line of the
\* text uses only var, named functions and approved global calls.
C19_ScanNeverThrows ==
  /\ \A k \in 1..Len(scanResults) : ~scanResults[k].threw
  /\ \A k, l \in 1..Len(scanResults) : scanResults[k] = scanResults[l]
  /\ \A k \in 1..Len(scanResults) :
       (\A i \in 1..Len(scanCode) : scanCode[i] \in CompliantLines) =>
         scanResults[k].violations = <<>>

\* C20: assembling a project whose entry fragment holds a block-scoped
\* declaration: in production mode the assembly fails with the
\* compliance-violations failure, which lists a Violation for every such
\* line with the fragment's name and the line's number, and no output file
\* is written; without production the assembly succeeds, writes the
\* output and reports the same Violations.
C20_ProductionBlocksViolations ==
  (buildOutcome # NoBuild /\ BlockScopedAt # {}) =>
    /\ \A i \in BlockScopedAt :
         \E j \in 1..Len(buildOutcome.violations) :
           /\ buildOutcome.violations[j].fragment = "src/callScripts/main.js"
           /\ buildOutcome.violations[j].line = i
    /\ IF buildMode
         THEN /\ buildOutcome.kind = "failed"
              /\ buildOutcome.error = "compliance violations"
              /\ outputFile = Undefined
       ELSE /\ buildOutcome.kind = "built"
            /\ outputFile = OutputText(BuildFragments)

\* ------------------------------------------------------------------------
\* promise callbacks: what runs after runInNewContext has returned
\* ------------------------------------------------------------------------
MaxCallbacks == 2

\* the script calls .then(callback) on the promise jsonHttpRequest gave it
ThenCallback(s) ==
  /\ pc[s] = "evaluating"
  /\ \E i \in 1..Len(httpCalls[s]) : httpCalls[s][i].answer.state = "fulfilled"
  /\ callbacks[s] < MaxCallbacks
  /\ callbacks' = [callbacks EXCEPT ![s] = @ + 1]
  /\ actor' = s
  /\ UNCHANGED <<sessionVars, sorterVars, verbose, options, hostBuiltins,
                 scanVars, invocation, scriptName>>

\* the host runs promise callbacks from its job queue, when no script is
\* on the stack: during the awaits of execute or after execute returned
JobQueueRuns(s) ==
  /\ callbacks[s] > 0
  /\ \A t \in Sessions : pc[t] # "evaluating"
  /\ pc[s] \in {"loading", "done", "failed"}

\* a callback that assigns context.session.variables[k]
CallbackAssigns(s, k, v) ==
  /\ JobQueueRuns(s)
  /\ callbacks' = [callbacks EXCEPT ![s] = @ - 1]
  /\ sandbox' = [sandbox EXCEPT ![s].variables[k] = v]
  /\ actor' = s
  /\ UNCHANGED <<disk, environment, httpMode, storageMode, stats,
                 memoryStorage, httpRequests, pc, loadOrder, idx, outcome,
                 evalLog, httpCalls, lastRead, declared, lastCall,
                 elapsed, consoleLog, lastWrite, sorterVars, verbose,
                 options, hostBuiltins, scanVars, invocation, scriptName>>

\* a callback that calls jsonHttpRequest(config)
CallbackRequests(s, config) ==
  /\ JobQueueRuns(s)
  /\ callbacks' = [callbacks EXCEPT ![s] = @ - 1]
  /\ stats' = [stats EXCEPT ![s].httpRequests = @ + 1]
  /\ httpRequests' =
       [httpRequests EXCEPT ![s] =
          IF config.given THEN Append(@, RequestEntry(config)) ELSE @]
  /\ httpCalls' =
       [httpCalls EXCEPT ![s] =
          Append(@, [config |-> config,
                     answer |-> HttpAnswer(httpMode[s], config)])]
  /\ actor' = s
  /\ UNCHANGED <<disk, environment, httpMode, storageMode, memoryStorage,
                 sandbox, pc, loadOrder, idx, outcome, evalLog, lastRead,
                 declared, lastCall, elapsed, consoleLog, lastWrite,
                 sorterVars, verbose, options, hostBuiltins, scanVars,
                 invocation, scriptName>>

\* what a script does with the promise of an HTTP call
UsePromises(s) ==
  \/ \E config \in HttpConfigs : handleHttpRequest(s, config)
  \/ ThenCallback(s)
  \/ \E k \in VarKeys, v \in VarValues : CallbackAssigns(s, k, v)
  \/ \E config \in HttpConfigs : CallbackRequests(s, config)

\* one session whose scripts call the HTTP API and chain callbacks
NextCallbacks == \E s \in Sessions : Load(s) \/ UsePromises(s)

\* a project of the entry script alone, in stub mode
InitCallbacks ==
  /\ Constructed({1}, EntryProjects, {"acc"}, {"stub"}, {"memory"})
  /\ SorterIdle
  /\ ScannerIdle

SpecCallbacks == InitCallbacks /\ [][NextCallbacks]_vars

\* the object execute returned, as its caller holds it: the counters are
\* numbers copied into it, sessionState and httpLog are references
HandedReport(s) ==
  [counters |-> outcome[s],
   sessionState |-> ReportSessionState(s),
   httpLog |-> ReportHttpLog(s)]

\* C21: once execute has handed the report to its caller, no later step
\* of the session, a promise callback run after the last script included,
\* changes the report's session variables, its HTTP log or its counters.
C21_ReportNeverMutated ==
  [][\A s \in Sessions :
       (pc[s] = "done" /\ pc'[s] = "done") =>
         HandedReport(s)' = HandedReport(s)]_vars

\* the part that holds: the counters of a handed report stay as they were
C21_CountersKept ==
  [][\A s \in Sessions :
       (pc[s] = "done" /\ pc'[s] = "done") => outcome'[s] = outcome[s]]_vars

\* ------------------------------------------------------------------------
\* execute called again on a simulator that has run before
\* ------------------------------------------------------------------------
MaxRuns == 2

\* a further execute(): a new sandbox and a new pass over the load order;
\* this.stats, this.memoryStorage and this.httpRequests are those the
\* constructor made
ExecuteAgain(s) ==
  /\ pc[s] \in {"done", "failed"}
  /\ Running(s)
  /\ invocation[s] < MaxRuns
  /\ invocation' = [invocation EXCEPT ![s] = @ + 1]
  /\ sandbox' = [sandbox EXCEPT ![s] = createSandbox(environment[s], httpMode[s])]
  /\ loadOrder' = [loadOrder EXCEPT ![s] = ResolveLoadOrder(disk[s])]
  /\ idx' = [idx EXCEPT ![s] = 1]
  /\ pc' = [pc EXCEPT ![s] = "loading"]
  /\ evalLog' = [evalLog EXCEPT ![s] = <<>>]
  /\ declared' = [declared EXCEPT ![s] = {}]
  /\ actor' = s
  /\ UNCHANGED <<disk, environment, httpMode, storageMode, stats,
                 memoryStorage, httpRequests, outcome, httpCalls, lastRead,
                 lastCall, elapsed, consoleLog, lastWrite, sorterVars,
                 verbose, options, hostBuiltins, scanVars, callbacks,
                 scriptName>>

\* one simulator used for several runs, its scripts using the host API
NextRuns ==
  \E s \in Sessions : Load(s) \/ ExecuteAgain(s) \/ UseSandbox(s)

InitRuns ==
  /\ Constructed({1}, EntryProjects, {"acc"}, {"stub"}, {"memory"})
  /\ SorterIdle
  /\ ScannerIdle

SpecRuns == InitRuns /\ [][NextRuns]_vars

\* the Runtime Context of a run that has not evaluated anything yet
FreshContext(s) ==
  /\ stats[s] = [filesLoaded |-> 0, httpRequests |-> 0, storageOps |-> 0]
  /\ \A p \in StoragePaths : memoryStorage[s][p] = Undefined
  /\ httpRequests[s] = <<>>
  /\ sandbox[s].variables = createVocallsContext(environment[s], httpMode[s])

\* the fragments the current run has evaluated to the end
CompletedInRun(s) ==
  Cardinality({i \in 1..Len(evalLog[s]) : evalLog[s][i].ev = "end"})

\* C22: every call of execute, a second one on the same simulator
\* included, starts from zero counters, an empty storage, an empty HTTP
\* log and session variables holding the two tags only, and the report it
\* returns counts the fragments of that call alone.
C22_EveryRunStartsFresh ==
  [][\A s \in Sessions :
       /\ (pc[s] \in {"constructed", "done", "failed"} /\ pc'[s] = "loading")
            => FreshContext(s)'
       /\ (pc[s] = "loading" /\ pc'[s] = "done")
            => outcome'[s].filesLoaded = CompletedInRun(s)']_vars

\* the part that holds: the first execute of a simulator starts fresh
C22_FirstRunStartsFresh ==
  [][\A s \in Sessions :
       (pc[s] = "constructed" /\ pc'[s] = "loading") => FreshContext(s)']_vars

\* ------------------------------------------------------------------------
\* Properties of the sorter as a function of its two arguments
\* ------------------------------------------------------------------------
\* C23: the sorter is a pure function: a call, with or without an
\* explicit order, leaves the caller's list of file names as it was, the
\* same elements at the same positions.
C23_SorterLeavesArguments ==
  sCalled => sFiles = sInput

\* the part that holds: with a non-empty explicit order the caller's list
\* is left alone
C23_FilterCopies ==
  (sCalled /\ Len(sOrder) > 0) => sFiles = sInput

\* how often x stands in seq
Occurrences(seq, x) == Cardinality({ i \in 1..Len(seq) : seq[i] = x })

\* C27: the result of the sorter is a permutation of the file names it
\* was given: each input name once and no other name, also when the
\* explicit order names a file that is not in the input or names a file
\* more than once.
C27_ResultIsPermutation ==
  sCalled =>
    \A x \in SortNames \cup OrderNames :
      Occurrences(sResult, x) = Occurrences(sInput, x)

\* the part that holds: an explicit order that names input files only,
\* each at most once, gives a permutation
C27_PermutationOfListedInput ==
  (/\ sCalled
   /\ Range(sOrder) \subseteq Range(sInput)
   /\ \A x \in OrderNames : Occurrences(sOrder, x) <= 1) =>
    \A x \in SortNames \cup OrderNames :
      Occurrences(sResult, x) = Occurrences(sInput, x)

\* two different names that begin with digit runs of the same value
SharesLeadingNumber(a, b) ==
  /\ a # b
  /\ IsDigit(a[1]) /\ IsDigit(b[1])
  /\ LeadingNumber(a) = LeadingNumber(b)

\* what the sorter returns for the names of the input listed in another
\* enumeration order
ResultOfOtherListing == sortLibraryFiles(SetToSeq(Range(sInput)))

\* C28 as stated: with an empty explicit order the result depends on the
\* set of names only, names that share a leading number included: every
\* enumeration of the set gives the result of any other.
C28_EnumerationIndependent ==
  (sCalled /\ sOrder = <<>>) => sResult = ResultOfOtherListing

\* C28: with an empty explicit order and a set of names of which no two
\* share the value of their leading number, every enumeration of the set
\* gives the same result; two names that share it stand in the result in
\* the order the input listed them in.
C28_IndependentUnlessTied ==
  (sCalled /\ sOrder = <<>>) =>
    /\ (\A a, b \in Range(sInput) : ~SharesLeadingNumber(a, b)) =>
         sResult = ResultOfOtherListing
    /\ \A i, j \in 1..Len(sInput) :
         (i < j /\ SharesLeadingNumber(sInput[i], sInput[j])) =>
           IndexOf(sResult, sInput[i]) < IndexOf(sResult, sInput[j])

\* a call on four names without a shared leading number, listed in an
\* order that is neither the sorted one nor the other enumeration
C28_Witness ==
  /\ sCalled
  /\ sOrder = <<>>
  /\ Range(sInput) = {Fbeta, F10tenth, Falpha, F2second}
  /\ sInput # sResult
  /\ sInput # SetToSeq(Range(sInput))
  /\ sResult = <<F2second, F10tenth, Falpha, Fbeta>>

\* ------------------------------------------------------------------------
\* Storage: what is read back after a write
\* ------------------------------------------------------------------------
\* the string contents a script writes, the empty string among them
WrittenContents == {"x", "y", ""}

\* what a script does with Storage
UseStorage(s) ==
  \/ \E path \in StoragePaths : handleStorageRead(s, path)
  \/ \E path \in StoragePaths, content \in WrittenContents :
       handleStorageWrite(s, path, content)

NextStorage == \E s \in Sessions : Load(s) \/ UseStorage(s)

InitStorage ==
  /\ Constructed({1}, EntryProjects, {"acc"}, {"stub"}, StorageModes)
  /\ SorterIdle
  /\ ScannerIdle

SpecStorage == InitStorage /\ [][NextStorage]_vars

\* C24: in memory mode a successful Storage.writeFile(p, c) makes every
\* later Storage.readFile(p) of the session return success with the
\* string form of c as text, until p is written again, for every content
\* c, the empty string included: the write keeps the string form of c for
\* p, no step but a write of p changes what is kept for p, and a read of
\* p returns what is kept. (The contents written are strings, which are
\* their own string form.)
C24_ReadReturnsWritten ==
  [][\A s \in Sessions : \A p \in StoragePaths :
       /\ \A c \in WrittenContents :
            (handleStorageWrite(s, p, c) /\ lastWrite'[s].success) =>
              memoryStorage'[s][p] = c
       /\ (\A c \in WrittenContents : ~handleStorageWrite(s, p, c)) =>
            memoryStorage'[s][p] = memoryStorage[s][p]
       /\ (/\ handleStorageRead(s, p)
           /\ storageMode[s] = "memory"
           /\ memoryStorage[s][p] # Undefined) =>
            lastRead'[s] = [success |-> TRUE, text |-> memoryStorage[s][p],
                            error |-> Null]]_vars

\* the part that holds: a content that is not the empty string is read
\* back as it was written
C24_NonEmptyReadBack ==
  [][\A s \in Sessions : \A p \in StoragePaths :
       /\ \A c \in WrittenContents :
            (handleStorageWrite(s, p, c) /\ lastWrite'[s].success) =>
              memoryStorage'[s][p] = c
       /\ (\A c \in WrittenContents : ~handleStorageWrite(s, p, c)) =>
            memoryStorage'[s][p] = memoryStorage[s][p]
       /\ (/\ handleStorageRead(s, p)
           /\ storageMode[s] = "memory"
           /\ memoryStorage[s][p] \notin {Undefined, ""}) =>
            lastRead'[s] = [success |-> TRUE, text |-> memoryStorage[s][p],
                            error |-> Null]]_vars

\* ------------------------------------------------------------------------
\* the Promise features createLimitedPromise takes away
\* ------------------------------------------------------------------------
\* where a script gets a promise from: the Promise binding of its sandbox
\* (new Promise(...), Promise.resolve(...)), a call of jsonHttpRequest or
\* httpRequest, and .then on either
PromiseSources ==
  {"Promise", "Promise.then", "jsonHttpRequest", "jsonHttpRequest.then"}

\* the class of a promise from that source: handleHttpRequest is an async
\* function of the host and createStubResponse calls the host's
\* Promise.resolve, so its promise is a host Promise; .then builds its
\* result with the constructor of the promise it is called on
ClassOfPromise(s, source) ==
  IF source \in {"jsonHttpRequest", "jsonHttpRequest.then"}
    THEN "Promise"
  ELSE sandbox[s].Promise

\* the Error the overrides of VocallsPromise throw
NotSupported(method) ==
  [type |-> "Error",
   about |-> IF method = "catch"
               THEN ".catch() not supported in Vocalls ES5.1. Use .then(success, error)"
             ELSE IF method = "all"
               THEN "Promise.all() not supported in Vocalls ES5.1"
             ELSE "Promise.race() not supported in Vocalls ES5.1"]

\* catch, all and race are overridden by VocallsPromise and by no other
\* class
Overrides(class) == class = createLimitedPromise

\* the script calls method on a promise, or on a class, of that class and
\* does not handle what it throws
CallPromiseMethod(s, class, method) ==
  IF Overrides(class)
    THEN /\ Fails(s, NotSupported(method))
         /\ UNCHANGED elapsed
  ELSE /\ lastCall' = [lastCall EXCEPT ![s] =
                         [fn |-> method, at |-> idx[s], by |-> 0]]
       /\ actor' = s
       /\ UNCHANGED <<disk, environment, httpMode, storageMode, stats,
                      memoryStorage, httpRequests, sandbox, pc, loadOrder,
                      idx, outcome, evalLog, httpCalls, lastRead, declared,
                      sorterVars, extVars, elapsed, consoleLog, lastWrite>>

\* promise.catch(handler) on a promise the script got from source
CallCatch(s, source) ==
  /\ pc[s] = "evaluating"
  /\ source \in {"jsonHttpRequest", "jsonHttpRequest.then"} =>
       httpCalls[s] # <<>>
  /\ CallPromiseMethod(s, ClassOfPromise(s, source), "catch")

\* Promise.all(...) or Promise.race(...) through the sandbox's binding
CallPromiseStatic(s, method) ==
  /\ pc[s] = "evaluating"
  /\ CallPromiseMethod(s, sandbox[s].Promise, method)

\* what a script does with promises
UsePromiseMethods(s) ==
  \/ \E config \in HttpConfigs : handleHttpRequest(s, config)
  \/ \E source \in PromiseSources : CallCatch(s, source)
  \/ \E method \in {"all", "race"} : CallPromiseStatic(s, method)

NextPromise == \E s \in Sessions : Load(s) \/ UsePromiseMethods(s)

InitPromise ==
  /\ Constructed({1}, EntryProjects, {"acc"}, HttpModes, {"memory"})
  /\ SorterIdle
  /\ ScannerIdle

SpecPromise == InitPromise /\ [][NextPromise]_vars

\* the run of session s has just failed with the error of method
Raised(s, method) ==
  /\ pc[s] = "failed"
  /\ outcome[s].kind = "error"
  /\ outcome[s].message = NotSupported(method)

\* C25: .catch on any promise a script can get hold of (built with the
\* sandbox's Promise, derived by .then, or returned by jsonHttpRequest or
\* httpRequest), and Promise.all and Promise.race, raise the 'not
\* supported in Vocalls ES5.1' error.
C25_PromiseFeaturesRaise ==
  [][\A s \in Sessions :
       /\ \A source \in PromiseSources :
            CallCatch(s, source) => Raised(s, "catch")'
       /\ \A method \in {"all", "race"} :
            CallPromiseStatic(s, method) => Raised(s, method)']_vars

\* the part that holds: the promises of the sandbox's own Promise binding
C25_BindingPromisesRaise ==
  [][\A s \in Sessions :
       /\ \A source \in {"Promise", "Promise.then"} :
            CallCatch(s, source) => Raised(s, "catch")'
       /\ \A method \in {"all", "race"} :
            CallPromiseStatic(s, method) => Raised(s, method)']_vars

\* ------------------------------------------------------------------------
\* execute(scriptName)
\* ------------------------------------------------------------------------
\* the script names a caller passes: the default and another call script
ScriptNames == {"main", "other"}

\* execute(name) up to the for loop of loadProjectFiles: the parameter is
\* read nowhere, and loadProjectFiles ends its load order with
\* 'src/callScripts/main.js'
ExecuteScript(s, name) ==
  /\ pc[s] = "constructed"
  /\ Running(s)
  /\ scriptName' = [scriptName EXCEPT ![s] = name]
  /\ sandbox' = [sandbox EXCEPT ![s] = createSandbox(environment[s], httpMode[s])]
  /\ loadOrder' = [loadOrder EXCEPT ![s] = ResolveLoadOrder(disk[s])]
  /\ idx' = [idx EXCEPT ![s] = 1]
  /\ pc' = [pc EXCEPT ![s] = "loading"]
  /\ actor' = s
  /\ UNCHANGED <<disk, environment, httpMode, storageMode, stats,
                 memoryStorage, httpRequests, outcome, evalLog, httpCalls,
                 lastRead, declared, lastCall, elapsed, consoleLog,
                 lastWrite, sorterVars, verbose, options, hostBuiltins,
                 scanVars, callbacks, invocation>>

\* the steps of loadProjectFiles and loadScript
LoadFiles(s) ==
  \/ SkipMissing(s)
  \/ StartEvaluation(s)
  \/ ScriptReturns(s)
  \/ ScriptThrows(s)
  \/ ScriptTimesOut(s)
  \/ ReturnReport(s)

\* a run asked for with a script name, as `voc sim --script` asks for it
NextEntry ==
  \E s \in Sessions :
    \/ \E name \in ScriptNames : ExecuteScript(s, name)
    \/ LoadFiles(s)
    \/ UseScope(s)

InitEntry ==
  /\ Constructed({1}, EntryProjects, {"acc"}, HttpModes, StorageModes)
  /\ SorterIdle
  /\ ScannerIdle

SpecEntry == InitEntry /\ [][NextEntry]_vars

\* the fragment of the call script src/callScripts/<name>.js
CallScript(name) ==
  IF name = "main" THEN EntryFragment
  ELSE [role |-> "entry", name |-> <<name>>]

\* the fragment whose evaluation was the last to start
LastEvaluated(s) == loadOrder[s][evalLog[s][Len(evalLog[s])].at]

\* C26: for every script name passed to execute, the fragment evaluated
\* last in a run that completes is the call script of that name, so that
\* another name selects another entry fragment.
C26_EntryIsNamedScript ==
  \A s \in Sessions :
    (pc[s] = "done" /\ evalLog[s] # <<>>) =>
      LastEvaluated(s) = CallScript(scriptName[s])

\* the part that holds: the last fragment evaluated is main.js
C26_EntryIsMain ==
  \A s \in Sessions :
    (pc[s] = "done" /\ evalLog[s] # <<>>) => LastEvaluated(s) = EntryFragment

\* ------------------------------------------------------------------------
\* Properties of the counters
\* ------------------------------------------------------------------------
\* C29: in every state of a session, in either HTTP mode and whatever
\* argument each call was given (no config included), the HTTP call
\* counter equals the number of entries of the HTTP call log.
C29_CounterEqualsLogLength ==
  \A s \in Sessions : stats[s].httpRequests = Len(httpRequests[s])

\* the part that holds: as long as every call was given a config
C29_CounterEqualsLogOfGiven ==
  \A s \in Sessions :
    (\A i \in 1..Len(httpCalls[s]) : httpCalls[s][i].config.given) =>
      stats[s].httpRequests = Len(httpRequests[s])

\* the positions of the load order whose file exists on disk
ExistingInLoadOrder(s) ==
  { i \in 1..Len(loadOrder[s]) : fileExists(disk[s], loadOrder[s][i]) }

====
